---- MODULE Spec2Model ----
(***************************************************************************)
(* Model of core/state-machine/src/overlayed_changes.rs: the overlayed     *)
(* change set (a flat key -> value-history store indexed by a global       *)
(* vector of transaction states) and the OverlayedChanges facade.          *)
(*                                                                         *)
(* Conventions.                                                            *)
(*   Option<T>      : None is <<>>, Some(x) is <<x>>.                      *)
(*   Vec<u8>        : a sequence of bytes.                                 *)
(*   (V, usize)     : the pair <<v, i>>; i is the 0-based index into       *)
(*                    `history` exactly as the code stores it, so the      *)
(*                    marker it refers to is history[i + 1].               *)
(*   HashMap<K, V>  : a function whose DOMAIN is the set of present keys.  *)
(*   u32            : the 32-bit pattern read as a two's-complement        *)
(*                    integer (0xffff_ffff is -1).                         *)
(***************************************************************************)
EXTENDS Integers, Sequences, FiniteSets, TLC

VARIABLES
    changes,                \* OverlayedChanges.changes : OverlayedChangeSet
    changes_trie_config,    \* OverlayedChanges.changes_trie_config
    committed_out,          \* Some(result of into_committed) once the overlay is consumed
    nops,                   \* number of operations performed (bounded in Spec)
    lastOp,                 \* the last operation performed before into_committed
    txs,                    \* one record per transaction the caller holds open
    undone,                 \* the record of the transaction the last discard_transaction ended
    since,                  \* bookkeeping since the last commit_prospective
    layer,                  \* bookkeeping since the last layer operation
    hist,                   \* SpecHistory: a History<V> used on its own
    seq,                    \* SpecHistory: the plain sequence hist is to behave as
    ret                     \* SpecHistory: what the last pop returned, and was to return

vars ==
    <<changes, changes_trie_config, committed_out, nops, lastOp, txs, undone, since, layer,
      hist, seq, ret>>

(***************************************************************************)
(* Bounds of the model.                                                    *)
(***************************************************************************)
MaxOps == 5         \* Spec: operations performed on one overlay
MaxHistory == 5     \* SpecTx: layer operations stop once |history| reaches this
MaxLen == 4          \* SpecHistory: entries held by the History used on its own
MaxFlushHistory == 6 \* SpecFlush: the same, for runs that end with into_committed
MaxNest == 7        \* SpecNest: length of the transaction-state history

(***************************************************************************)
(* Option and map helpers.                                                 *)
(***************************************************************************)
None == <<>>
Some(x) == <<x>>
IsSome(o) == o # <<>>
Unwrap(o) == o[1]

EmptyMap == <<>>
MapPut(m, k, v) == [x \in (DOMAIN m) \cup {k} |-> IF x = k THEN v ELSE m[x]]

Min(a, b) == IF a < b THEN a ELSE b

(***************************************************************************)
(* TransactionState                                                        *)
(***************************************************************************)
Pending     == "Pending"
TxPending   == "TxPending"
Prospective == "Prospective"
Committed   == "Committed"
Dropped     == "Dropped"
TransactionState == {Pending, TxPending, Prospective, Committed, Dropped}

(***************************************************************************)
(* History<V>: length, two inline slots, heap tail.                        *)
(***************************************************************************)
ALLOCATED_HISTORY == 2

HistoryDefault ==
    [length |-> 0, static_content |-> <<None, None>>, dyn_content |-> <<>>]

\* The value `expect` / an out-of-range Vec index aborts with.
Panic == <<"panic", "panic">>

\* impl Index<usize> for History<V>
Index(h, index) ==
    IF index >= ALLOCATED_HISTORY
    THEN IF index - ALLOCATED_HISTORY < Len(h.dyn_content)
         THEN h.dyn_content[index - ALLOCATED_HISTORY + 1]
         ELSE Panic
    ELSE IF IsSome(h.static_content[index + 1])
         THEN Unwrap(h.static_content[index + 1])
         ELSE Panic

len(h) == h.length

truncate(h, index) ==
    [h EXCEPT
        !.dyn_content =
            IF index >= ALLOCATED_HISTORY
            THEN SubSeq(h.dyn_content, 1, Min(index, Len(h.dyn_content)))
            ELSE h.dyn_content,
        !.length = index]

\* pop returns the popped Option<(V, usize)> together with the new history.
pop(h) ==
    IF h.length > ALLOCATED_HISTORY
    THEN [h   |-> [h EXCEPT
                      !.length = h.length - 1,
                      !.dyn_content =
                          IF Len(h.dyn_content) = 0 THEN <<>>
                          ELSE SubSeq(h.dyn_content, 1, Len(h.dyn_content) - 1)],
          ret |-> IF Len(h.dyn_content) = 0 THEN None
                  ELSE Some(h.dyn_content[Len(h.dyn_content)])]
    ELSE IF h.length > 0
         THEN [h   |-> [h EXCEPT
                           !.length = h.length - 1,
                           !.static_content[h.length] = None],
               ret |-> h.static_content[h.length]]
         ELSE [h |-> h, ret |-> None]

\* Faulty variant: the entry is labelled with the layer after the current one.
push_next_layer(h, val, tx_index) ==
    IF h.length < ALLOCATED_HISTORY
    THEN [h EXCEPT !.static_content[h.length + 1] = Some(<<val, tx_index + 1>>),
                   !.length = h.length + 1]
    ELSE [h EXCEPT !.dyn_content = Append(h.dyn_content, <<val, tx_index + 1>>),
                   !.length = h.length + 1]

push(h, val, tx_index) ==
    IF h.length < ALLOCATED_HISTORY
    THEN [h EXCEPT !.static_content[h.length + 1] = Some(<<val, tx_index>>),
                   !.length = h.length + 1]
    ELSE [h EXCEPT !.dyn_content = Append(h.dyn_content, <<val, tx_index>>),
                   !.length = h.length + 1]

\* Faulty variant of the loop of History::get: the newest entry is returned
\* without looking at the marker of its layer.
get_loop_ignores_dropped(h, history, index) ==
    IF index = 0 THEN None ELSE Some(Index(h, index - 1)[1])

\* The loop of History::get, entered with `index` entries still to inspect.
RECURSIVE get_loop(_, _, _)
get_loop(h, history, index) ==
    IF index = 0 THEN None
    ELSE LET i == index - 1
             history_index == Index(h, i)[2]
         IN  IF history[history_index + 1] = Dropped
             THEN get_loop(h, history, i)
             ELSE Some(Index(h, i)[1])

get(h, history) == get_loop(h, history, len(h))

\* The loop of History::into_committed.
RECURSIVE into_committed_loop(_, _, _)
into_committed_loop(h, history, index) ==
    IF index = 0 THEN None
    ELSE LET i == index - 1
             history_index == Index(h, i)[2]
         IN  IF history[history_index + 1] = Committed
             THEN LET r == pop(truncate(h, i + 1)).ret
                  IN  IF IsSome(r) THEN Some(Unwrap(r)[1]) ELSE None
             ELSE into_committed_loop(h, history, i)

History_into_committed(h, history) == into_committed_loop(h, history, len(h))

\* The loop of History::get_mut.  The result carries the compacted history,
\* whether an entry was found, its position and its history index.
\* Faulty variant: entries of dropped layers are skipped but not popped.
RECURSIVE get_mut_loop_without_pop(_, _, _)
get_mut_loop_without_pop(h, history, index) ==
    IF index = 0 THEN [h |-> h, found |-> FALSE, at |-> 0, tx |-> 0]
    ELSE LET i == index - 1
             history_index == Index(h, i)[2]
         IN  IF history[history_index + 1] = Dropped
             THEN get_mut_loop_without_pop(h, history, i)
             ELSE [h |-> h, found |-> TRUE, at |-> i, tx |-> history_index]

RECURSIVE get_mut_loop(_, _, _)
get_mut_loop(h, history, index) ==
    IF index = 0 THEN [h |-> h, found |-> FALSE, at |-> 0, tx |-> 0]
    ELSE LET i == index - 1
             history_index == Index(h, i)[2]
         IN  IF history[history_index + 1] = Dropped
             THEN get_mut_loop(pop(h).h, history, i)
             ELSE [h |-> h, found |-> TRUE, at |-> i, tx |-> history_index]

get_mut(h, history) == get_mut_loop(h, history, len(h))

\* IndexMut: overwrite the value of the entry at position `at`.
SetValueAt(h, at, val) ==
    IF at >= ALLOCATED_HISTORY
    THEN [h EXCEPT !.dyn_content[at - ALLOCATED_HISTORY + 1][1] = val]
    ELSE [h EXCEPT !.static_content[at + 1] = Some(<<val, Unwrap(@)[2]>>)]

\* Faulty variant: every write pushes a new entry.
set_always_pushes(h, history, val) ==
    push(get_mut(h, history).h, val, Len(history) - 1)

set(h, history, val) ==
    LET m == get_mut(h, history)
        state == Len(history) - 1
    IN  IF m.found /\ m.tx = state
        THEN SetValueAt(m.h, m.at, val)
        ELSE push(m.h, val, Len(history) - 1)

(***************************************************************************)
(* OverlayedValue and the extrinsic-attributed write.                      *)
(***************************************************************************)
OverlayedValue(value, extrinsics) == [value |-> value, extrinsics |-> extrinsics]

\* Option<BTreeSet<u32>>::get_or_insert_with(Default::default).insert(x)
InsertExtrinsic(extrinsics, x) ==
    IF IsSome(extrinsics) THEN Some(Unwrap(extrinsics) \cup {x}) ELSE Some({x})

\* Faulty variant: a new entry starts from an empty extrinsic set instead of
\* cloning the set of the entry below it.
set_with_extrinsic_inner_fresh_set(h, history, val, extrinsic_index) ==
    LET state == Len(history) - 1
        m == get_mut(h, history)
    IN  IF m.found /\ m.tx = state
        THEN SetValueAt(m.h, m.at,
                OverlayedValue(val,
                    InsertExtrinsic(Index(m.h, m.at)[1].extrinsics, extrinsic_index)))
        ELSE push(m.h, OverlayedValue(val, InsertExtrinsic(None, extrinsic_index)), state)

set_with_extrinsic_inner(h, history, val, extrinsic_index) ==
    LET state == Len(history) - 1
        m == get_mut(h, history)
    IN  IF m.found
        THEN LET current == Index(m.h, m.at)[1]
             IN  IF m.tx = state
                 THEN SetValueAt(m.h, m.at,
                        OverlayedValue(val,
                            InsertExtrinsic(current.extrinsics, extrinsic_index)))
                 ELSE push(m.h,
                        OverlayedValue(val,
                            InsertExtrinsic(current.extrinsics, extrinsic_index)),
                        state)
        ELSE push(m.h, OverlayedValue(val, InsertExtrinsic(None, extrinsic_index)), state)

\* Faulty variant: without an index the write is attributed index 0.
set_with_extrinsic_always_attributes(h, history, val, extrinsic_index) ==
    set_with_extrinsic_inner(h, history, val,
        IF IsSome(extrinsic_index) THEN Unwrap(extrinsic_index) ELSE 0)

set_with_extrinsic(h, history, val, extrinsic_index) ==
    IF IsSome(extrinsic_index)
    THEN set_with_extrinsic_inner(h, history, val, Unwrap(extrinsic_index))
    ELSE set(h, history, OverlayedValue(val, None))

(***************************************************************************)
(* OverlayedChangeSet: the state-history vector and its layer operations.  *)
(***************************************************************************)
OverlayedChangeSetDefault ==
    [history |-> <<Pending>>, top |-> EmptyMap, children |-> EmptyMap]

OverlayedChangeSet_is_empty(cs) == DOMAIN cs.top = {} /\ DOMAIN cs.children = {}

\* Faulty variants of the scans below.
\* discard_prospective that stops at the innermost open transaction.
RECURSIVE discard_prospective_scan_stops_at_tx(_, _)
discard_prospective_scan_stops_at_tx(history, i) ==
    IF i = 0 THEN history
    ELSE LET j == i - 1 IN
         CASE history[j + 1] = Dropped -> discard_prospective_scan_stops_at_tx(history, j)
           [] history[j + 1] \in {Pending, Prospective} ->
                discard_prospective_scan_stops_at_tx([history EXCEPT ![j + 1] = Dropped], j)
           [] history[j + 1] \in {TxPending, Committed} -> history

\* discard_prospective that does not stop at a Committed marker.
RECURSIVE discard_prospective_scan_drops_committed(_, _)
discard_prospective_scan_drops_committed(history, i) ==
    IF i = 0 THEN history
    ELSE discard_prospective_scan_drops_committed(
            [history EXCEPT ![i] = Dropped], i - 1)

\* commit_prospective that stops after the innermost open transaction.
RECURSIVE commit_prospective_scan_innermost(_, _)
commit_prospective_scan_innermost(history, i) ==
    IF i = 0 THEN history
    ELSE LET j == i - 1 IN
         CASE history[j + 1] = Dropped -> commit_prospective_scan_innermost(history, j)
           [] history[j + 1] \in {Prospective, Pending} ->
                commit_prospective_scan_innermost([history EXCEPT ![j + 1] = Committed], j)
           [] history[j + 1] = TxPending -> [history EXCEPT ![j + 1] = Committed]
           [] history[j + 1] = Committed -> history

\* discard_transaction that leaves the TxPending marker it stops at in place.
RECURSIVE discard_transaction_scan_keeps_tx(_, _)
discard_transaction_scan_keeps_tx(history, i) ==
    IF i = 0 THEN history
    ELSE LET j == i - 1 IN
         CASE history[j + 1] = Dropped -> discard_transaction_scan_keeps_tx(history, j)
           [] history[j + 1] \in {Prospective, Pending} ->
                discard_transaction_scan_keeps_tx([history EXCEPT ![j + 1] = Dropped], j)
           [] history[j + 1] \in {TxPending, Committed} -> history

\* discard_transaction that stops at a Dropped marker instead of skipping it.
RECURSIVE discard_transaction_scan_stops_at_dropped(_, _)
discard_transaction_scan_stops_at_dropped(history, i) ==
    IF i = 0 THEN history
    ELSE LET j == i - 1 IN
         CASE history[j + 1] \in {Prospective, Pending} ->
                discard_transaction_scan_stops_at_dropped(
                    [history EXCEPT ![j + 1] = Dropped], j)
           [] history[j + 1] = TxPending -> [history EXCEPT ![j + 1] = Dropped]
           [] history[j + 1] \in {Committed, Dropped} -> history

\* discard_transaction that forgets to open a new Pending layer.
ChangeSet_discard_transaction_without_push(cs) ==
    [cs EXCEPT !.history = discard_transaction_scan_keeps_tx(cs.history, Len(cs.history))]

\* Each *_scan is the `while i > 0` loop of the operation of the same name,
\* entered with i markers still to visit.
RECURSIVE discard_prospective_scan(_, _)
discard_prospective_scan(history, i) ==
    IF i = 0 THEN history
    ELSE LET j == i - 1 IN
         CASE history[j + 1] = Dropped -> discard_prospective_scan(history, j)
           [] history[j + 1] \in {Pending, TxPending, Prospective} ->
                discard_prospective_scan([history EXCEPT ![j + 1] = Dropped], j)
           [] history[j + 1] = Committed -> history

ChangeSet_discard_prospective(cs) ==
    [cs EXCEPT !.history =
        Append(discard_prospective_scan(cs.history, Len(cs.history)), Pending)]

RECURSIVE commit_prospective_scan(_, _)
commit_prospective_scan(history, i) ==
    IF i = 0 THEN history
    ELSE LET j == i - 1 IN
         CASE history[j + 1] = Dropped -> commit_prospective_scan(history, j)
           [] history[j + 1] \in {Prospective, TxPending, Pending} ->
                commit_prospective_scan([history EXCEPT ![j + 1] = Committed], j)
           [] history[j + 1] = Committed -> history

ChangeSet_commit_prospective(cs) ==
    [cs EXCEPT !.history =
        Append(commit_prospective_scan(cs.history, Len(cs.history)), Pending)]

ChangeSet_start_transaction(cs) ==
    [cs EXCEPT !.history = Append(cs.history, TxPending)]

RECURSIVE discard_transaction_scan(_, _)
discard_transaction_scan(history, i) ==
    IF i = 0 THEN history
    ELSE LET j == i - 1 IN
         CASE history[j + 1] = Dropped -> discard_transaction_scan(history, j)
           [] history[j + 1] \in {Prospective, Pending} ->
                discard_transaction_scan([history EXCEPT ![j + 1] = Dropped], j)
           [] history[j + 1] = TxPending -> [history EXCEPT ![j + 1] = Dropped]
           [] history[j + 1] = Committed -> history

ChangeSet_discard_transaction(cs) ==
    [cs EXCEPT !.history =
        Append(discard_transaction_scan(cs.history, Len(cs.history)), Pending)]

RECURSIVE commit_transaction_scan(_, _)
commit_transaction_scan(history, i) ==
    IF i = 0 THEN history
    ELSE LET j == i - 1 IN
         CASE history[j + 1] = Dropped -> commit_transaction_scan(history, j)
           [] history[j + 1] = Pending ->
                commit_transaction_scan([history EXCEPT ![j + 1] = Prospective], j)
           [] history[j + 1] = TxPending -> [history EXCEPT ![j + 1] = Prospective]
           [] history[j + 1] \in {Prospective, Committed} -> history

ChangeSet_commit_transaction(cs) ==
    [cs EXCEPT !.history =
        Append(commit_transaction_scan(cs.history, Len(cs.history)), Pending)]

\* Faulty variant: every key with an entry is yielded with its newest entry,
\* Dropped or not.
top_iter_overlay_newest_entry(cs) ==
    [k \in {x \in DOMAIN cs.top : len(cs.top[x]) > 0}
        |-> Index(cs.top[k], len(cs.top[k]) - 1)[1]]

\* top_iter_overlay / child_iter_overlay as the map of the items they yield.
top_iter_overlay(cs) ==
    [k \in {x \in DOMAIN cs.top : IsSome(get(cs.top[x], cs.history))}
        |-> Unwrap(get(cs.top[k], cs.history))]

top_iter(cs) ==
    [k \in DOMAIN top_iter_overlay(cs) |-> top_iter_overlay(cs)[k].value]

child_iter_overlay(cs, storage_key) ==
    IF storage_key \in DOMAIN cs.children
    THEN LET child == cs.children[storage_key] IN
         [k \in {x \in DOMAIN child : IsSome(get(child[x], cs.history))}
            |-> Unwrap(get(child[k], cs.history))]
    ELSE EmptyMap

child_iter(cs, storage_key) ==
    [k \in DOMAIN child_iter_overlay(cs, storage_key)
        |-> child_iter_overlay(cs, storage_key)[k].value]

(***************************************************************************)
(* Collaborators outside this file: the reserved key, the sentinel and     *)
(* the integer decoder.                                                    *)
(***************************************************************************)
\* b":extrinsic_index"
EXTRINSIC_INDEX ==
    <<58, 101, 120, 116, 114, 105, 110, 115, 105, 99, 95, 105, 110, 100, 101, 120>>

\* 0xffff_ffff
NO_EXTRINSIC_INDEX == 0 - 1

\* <u32 as Decode>::decode: four little-endian bytes, None when fewer are left.
Decode(bytes) ==
    IF Len(bytes) < 4 THEN None
    ELSE Some(bytes[1] + 256 * bytes[2] + 65536 * bytes[3]
              + 16777216 * (IF bytes[4] >= 128 THEN bytes[4] - 256 ELSE bytes[4]))

(***************************************************************************)
(* OverlayedChanges: the facade.  `o` is the record                        *)
(* [changes |-> OverlayedChangeSet, changes_trie_config |-> Option].       *)
(***************************************************************************)
is_empty(o) == OverlayedChangeSet_is_empty(o.changes)

\* Faulty variant: a different configuration replaces the installed one.
set_changes_trie_config_overwrites(o, config) ==
    [o |-> [o EXCEPT !.changes_trie_config = Some(config)], ret |-> TRUE]

set_changes_trie_config(o, config) ==
    IF IsSome(o.changes_trie_config) /\ Unwrap(o.changes_trie_config) # config
    THEN [o |-> o, ret |-> FALSE]
    ELSE [o |-> [o EXCEPT !.changes_trie_config = Some(config)], ret |-> TRUE]

storage(o, key) ==
    IF key \in DOMAIN o.changes.top
    THEN LET o_val == get(o.changes.top[key], o.changes.history) IN
         IF IsSome(o_val) THEN Some(Unwrap(o_val).value) ELSE None
    ELSE None

child_storage(o, storage_key, key) ==
    IF storage_key \in DOMAIN o.changes.children
       /\ key \in DOMAIN o.changes.children[storage_key]
    THEN LET o_val == get(o.changes.children[storage_key][key], o.changes.history) IN
         IF IsSome(o_val) THEN Some(Unwrap(o_val).value) ELSE None
    ELSE None

\* Faulty variant: 0 instead of NO_EXTRINSIC_INDEX when nothing decodes.
extrinsic_index_zero_default(o) ==
    IF IsSome(o.changes_trie_config)
    THEN LET idx == storage(o, EXTRINSIC_INDEX)
         IN  Some(IF IsSome(idx) /\ IsSome(Unwrap(idx))
                     /\ IsSome(Decode(Unwrap(Unwrap(idx))))
                  THEN Unwrap(Decode(Unwrap(Unwrap(idx)))) ELSE 0)
    ELSE None

extrinsic_index(o) ==
    IF IsSome(o.changes_trie_config)
    THEN LET idx == storage(o, EXTRINSIC_INDEX)
             dec == IF IsSome(idx) /\ IsSome(Unwrap(idx))
                    THEN Decode(Unwrap(Unwrap(idx))) ELSE None
         IN  Some(IF IsSome(dec) THEN Unwrap(dec) ELSE NO_EXTRINSIC_INDEX)
    ELSE None

\* HashMap::entry(key).or_default()
OrDefault(m, k, d) == IF k \in DOMAIN m THEN m[k] ELSE d

set_storage(o, key, val) ==
    LET extrinsic == extrinsic_index(o)
        entry == OrDefault(o.changes.top, key, HistoryDefault)
    IN  [o EXCEPT !.changes.top =
            MapPut(@, key, set_with_extrinsic(entry, o.changes.history, val, extrinsic))]

set_child_storage(o, storage_key, key, val) ==
    LET extrinsic == extrinsic_index(o)
        map_entry == OrDefault(o.changes.children, storage_key, EmptyMap)
        entry == OrDefault(map_entry, key, HistoryDefault)
    IN  [o EXCEPT !.changes.children =
            MapPut(@, storage_key,
                MapPut(map_entry, key,
                    set_with_extrinsic(entry, o.changes.history, val, extrinsic)))]

\* Faulty variant: the keys of every child are cleared.
clear_child_storage_all_children(o, storage_key) ==
    LET extrinsic == extrinsic_index(o)
        with_entry == MapPut(o.changes.children, storage_key,
                        OrDefault(o.changes.children, storage_key, EmptyMap))
    IN  [o EXCEPT !.changes.children =
            [sk \in DOMAIN with_entry |->
                [k \in DOMAIN with_entry[sk] |->
                    set_with_extrinsic(with_entry[sk][k], o.changes.history,
                        None, extrinsic)]]]

clear_child_storage(o, storage_key) ==
    LET extrinsic == extrinsic_index(o)
        map_entry == OrDefault(o.changes.children, storage_key, EmptyMap)
    IN  [o EXCEPT !.changes.children =
            MapPut(@, storage_key,
                [k \in DOMAIN map_entry |->
                    set_with_extrinsic(map_entry[k], o.changes.history, None, extrinsic)])]

starts_with(key, prefix) ==
    Len(prefix) <= Len(key) /\ SubSeq(key, 1, Len(prefix)) = prefix

\* Faulty variant: every top key is cleared, whatever its prefix.
clear_prefix_all_keys(o, prefix) ==
    [o EXCEPT !.changes.top =
        [key \in DOMAIN @ |->
            set_with_extrinsic(@[key], o.changes.history, None, extrinsic_index(o))]]

clear_prefix(o, prefix) ==
    LET extrinsic == extrinsic_index(o)
    IN  [o EXCEPT !.changes.top =
            [key \in DOMAIN @ |->
                IF starts_with(key, prefix)
                THEN set_with_extrinsic(@[key], o.changes.history, None, extrinsic)
                ELSE @[key]]]

discard_prospective(o) == [o EXCEPT !.changes = ChangeSet_discard_prospective(@)]
commit_prospective(o) == [o EXCEPT !.changes = ChangeSet_commit_prospective(@)]
start_transaction(o) == [o EXCEPT !.changes = ChangeSet_start_transaction(@)]
discard_transaction(o) == [o EXCEPT !.changes = ChangeSet_discard_transaction(@)]
commit_transaction(o) == [o EXCEPT !.changes = ChangeSet_commit_transaction(@)]

\* The items of one map of value histories that into_committed yields.
committed_items(m, history) ==
    [k \in {x \in DOMAIN m : IsSome(History_into_committed(m[x], history))}
        |-> Unwrap(History_into_committed(m[k], history)).value]

into_committed(o) ==
    [top |-> committed_items(o.changes.top, o.changes.history),
     children |-> [sk \in DOMAIN o.changes.children |->
                      committed_items(o.changes.children[sk], o.changes.history)]]

(***************************************************************************)
(* Inputs.                                                                 *)
(***************************************************************************)
Key1 == <<1>>
Key2 == <<1, 2>>
TopKeys == {Key1, EXTRINSIC_INDEX}
Prefixes == {<<>>, Key1, Key2}
Child1 == <<9>>
ChildKeys == {Child1}
InnerKeys == {Key1}
Bytes1 == <<7>>
Bytes2 == <<1, 0, 0, 0>>
Values == {None, Some(Bytes1), Some(Bytes2)}
Config1 == [digest_interval |-> 4, digest_levels |-> 1]
Config2 == [digest_interval |-> 2, digest_levels |-> 1]
Configs == {Config1, Config2}

\* SpecTx: the layer operations over writes to one key.
TxKeys == {Key1}
TxValues == {None, Some(Bytes1)}

(***************************************************************************)
(* Observations.  A slot is <<None, key>> for a top key and                *)
(* <<Some(storage_key), key>> for a child key.                             *)
(***************************************************************************)
Slots == ({None} \X (TopKeys \cup {Key2})) \cup ({Some(c) : c \in ChildKeys} \X InnerKeys)

\* Option<OverlayedValue> visible at a slot: what History::get returns.
Visible(o, slot) ==
    IF slot[1] = None
    THEN IF slot[2] \in DOMAIN o.changes.top
         THEN get(o.changes.top[slot[2]], o.changes.history) ELSE None
    ELSE IF Unwrap(slot[1]) \in DOMAIN o.changes.children
            /\ slot[2] \in DOMAIN o.changes.children[Unwrap(slot[1])]
         THEN get(o.changes.children[Unwrap(slot[1])][slot[2]], o.changes.history)
         ELSE None

\* The visible OverlayedValue (value and extrinsic set) of every slot.
FullView(o) == [slot \in Slots |-> Visible(o, slot)]

\* storage / child_storage of every slot.
Lookup(o, slot) ==
    IF slot[1] = None THEN storage(o, slot[2])
    ELSE child_storage(o, Unwrap(slot[1]), slot[2])

StorageView(o) == [slot \in Slots |-> Lookup(o, slot)]

\* The value part of a full view, in the shape of StorageView.
ValuesOf(view) ==
    [slot \in Slots |-> IF IsSome(view[slot]) THEN Some(Unwrap(view[slot]).value) ELSE None]

\* A value history as the plain sequence of its (value, history_index) pairs.
Entries(h) == [i \in 1..len(h) |-> Index(h, i - 1)]

\* All value histories of a change set.
Histories(cs) ==
    {cs.top[k] : k \in DOMAIN cs.top}
        \cup UNION {{cs.children[c][k] : k \in DOMAIN cs.children[c]} : c \in DOMAIN cs.children}

\* No entry of any value history refers to a Pending, TxPending or Prospective layer.
NothingUncommitted(cs) ==
    \A h \in Histories(cs) : \A i \in 1..len(h) :
        cs.history[Entries(h)[i][2] + 1] \in {Committed, Dropped}

(***************************************************************************)
(* Operations.  An operation is a tuple <<name, arguments...>>.            *)
(***************************************************************************)
WriteOps ==
    ({"set_storage"} \X TopKeys \X Values)
        \cup ({"set_child_storage"} \X ChildKeys \X InnerKeys \X Values)
        \cup ({"clear_child_storage"} \X ChildKeys)
        \cup ({"clear_prefix"} \X Prefixes)

LayerNames ==
    {"discard_prospective", "commit_prospective", "start_transaction",
     "discard_transaction", "commit_transaction"}

IsWrite(op) ==
    op[1] \in {"set_storage", "set_child_storage", "clear_child_storage", "clear_prefix"}

Apply(o, op) ==
    CASE op[1] = "set_storage" -> set_storage(o, op[2], op[3])
      [] op[1] = "set_child_storage" -> set_child_storage(o, op[2], op[3], op[4])
      [] op[1] = "clear_child_storage" -> clear_child_storage(o, op[2])
      [] op[1] = "clear_prefix" -> clear_prefix(o, op[2])
      [] op[1] = "discard_prospective" -> discard_prospective(o)
      [] op[1] = "commit_prospective" -> commit_prospective(o)
      [] op[1] = "start_transaction" -> start_transaction(o)
      [] op[1] = "discard_transaction" -> discard_transaction(o)
      [] op[1] = "commit_transaction" -> commit_transaction(o)
      [] op[1] = "set_changes_trie_config" -> set_changes_trie_config(o, op[2]).o

\* The slots an operation writes to in overlay o.
Written(o, op) ==
    CASE op[1] = "set_storage" -> {<<None, op[2]>>}
      [] op[1] = "set_child_storage" -> {<<Some(op[2]), op[3]>>}
      [] op[1] = "clear_child_storage" ->
            IF op[2] \in DOMAIN o.changes.children
            THEN {<<Some(op[2]), k>> : k \in DOMAIN o.changes.children[op[2]]}
            ELSE {}
      [] op[1] = "clear_prefix" ->
            {<<None, k>> : k \in {x \in DOMAIN o.changes.top : starts_with(x, op[2])}}
      [] OTHER -> {}

(***************************************************************************)
(* Bookkeeping about the caller's use of the overlay.                      *)
(*                                                                         *)
(* txs holds one record per transaction the caller has started and not yet *)
(* ended: start_transaction pushes, commit_transaction and                 *)
(* discard_transaction end the innermost one, commit_prospective and       *)
(* discard_prospective end them all.  A record keeps                       *)
(*   view   the visible OverlayedValue of every slot when it started,      *)
(*   base   whether nothing uncommitted was stored when it started,        *)
(*   own    whether a write was made directly in it,                       *)
(*   wrote  whether a write was made in it or in a transaction inside it,  *)
(*   kind   0: it held only writes so far,                                 *)
(*          1: also inner transactions, all ended by discard_transaction,  *)
(*          2: also inner transactions ended by commit_transaction, none   *)
(*             of which held a committed transaction itself,               *)
(*          3: anything else,                                              *)
(*   nested whether it held only writes and inner transactions ended by    *)
(*          commit_transaction, themselves nested in that sense.           *)
(***************************************************************************)
Max(a, b) == IF a > b THEN a ELSE b

NewTx(o) ==
    [view |-> FullView(o), base |-> NothingUncommitted(o.changes),
     own |-> FALSE, wrote |-> FALSE, kind |-> 0, nested |-> TRUE]

Top(s) == s[Len(s)]
Front(s) == SubSeq(s, 1, Len(s) - 1)

\* The enclosing records after the innermost transaction ended with kind k.
EndInner(s, k) ==
    IF Len(s) <= 1 THEN <<>>
    ELSE LET inner == Top(s)
             outer == s[Len(s) - 1]
         IN  Append(SubSeq(s, 1, Len(s) - 2),
                    [outer EXCEPT !.kind = Max(@, IF inner.kind = 3 THEN 3 ELSE k),
                                  !.wrote = @ \/ inner.wrote,
                                  !.nested = @ /\ inner.nested /\ k # 1])

TxsAfter(o, op) ==
    CASE IsWrite(op) ->
            IF txs = <<>> THEN txs
            ELSE [txs EXCEPT ![Len(txs)].own = TRUE, ![Len(txs)].wrote = TRUE]
      [] op[1] = "start_transaction" -> Append(txs, NewTx(o))
      [] op[1] = "discard_transaction" -> EndInner(txs, 1)
      [] op[1] = "commit_transaction" ->
            EndInner(txs, IF txs # <<>> /\ Top(txs).kind <= 1 THEN 2 ELSE 3)
      [] op[1] \in {"commit_prospective", "discard_prospective"} -> <<>>
      [] OTHER -> txs

UndoneAfter(op) ==
    IF op[1] = "discard_transaction" /\ txs # <<>> THEN Some(Top(txs)) ELSE None

\* since: written  the slots written since the last commit_prospective,
\*        view     the visible values right after the last commit_prospective,
\*        pinned   Some(<<k, v>>) when set_storage(k, v) directly preceded it,
\*        swept    how many open transactions with a write of their own it ended.
SinceInit ==
    [written |-> {}, view |-> [slot \in Slots |-> None], pinned |-> None, swept |-> 0]

SinceAfter(o, op) ==
    CASE IsWrite(op) -> [since EXCEPT !.written = @ \cup Written(o, op)]
      [] op[1] = "commit_prospective" ->
            [written |-> {},
             view |-> StorageView(Apply(o, op)),
             pinned |-> IF lastOp[1] = "set_storage"
                        THEN Some(<<lastOp[2], lastOp[3]>>) ELSE None,
             swept |-> Cardinality({i \in 1..Len(txs) : txs[i].own})]
      [] OTHER -> since

\* layer: view  the visible OverlayedValue of every slot when the current
\*               layer began (after the last layer operation, or at creation),
\*        last  per slot, Some(v) when v is the value written last in the layer,
\*        ext   per slot, the extrinsic indices active at its writes in the layer,
\*        bare  the slots written in the layer while no configuration was installed.
LayerInit(o) ==
    [view |-> FullView(o),
     last |-> [slot \in Slots |-> None],
     ext  |-> [slot \in Slots |-> {}],
     bare |-> {}]

\* The value a write operation stores.
WrittenValue(op) ==
    CASE op[1] = "set_storage" -> op[3]
      [] op[1] = "set_child_storage" -> op[4]
      [] OTHER -> None

LayerAfter(o, op) ==
    CASE op[1] \in LayerNames -> LayerInit(Apply(o, op))
      [] IsWrite(op) ->
            LET W == Written(o, op)
                x == extrinsic_index(o)
            IN  [view |-> layer.view,
                 last |-> [slot \in Slots |->
                              IF slot \in W THEN Some(WrittenValue(op))
                              ELSE layer.last[slot]],
                 ext  |-> [slot \in Slots |->
                              IF slot \in W /\ IsSome(x)
                              THEN layer.ext[slot] \cup {Unwrap(x)}
                              ELSE layer.ext[slot]],
                 bare |-> IF IsSome(x) THEN layer.bare ELSE layer.bare \cup W]
      [] OTHER -> layer

(***************************************************************************)
(* The state machine.                                                      *)
(***************************************************************************)
Overlay == [changes |-> changes, changes_trie_config |-> changes_trie_config]

Init ==
    /\ changes = OverlayedChangeSetDefault
    /\ changes_trie_config = None
    /\ committed_out = None
    /\ nops = 0
    /\ lastOp = <<"default">>
    /\ txs = <<>>
    /\ undone = None
    /\ since = SinceInit
    /\ layer = LayerInit([changes |-> OverlayedChangeSetDefault,
                          changes_trie_config |-> None])
    /\ hist = HistoryDefault
    /\ seq = <<>>
    /\ ret = [got |-> None, want |-> None]

\* Operation op is performed on the overlay.
Step(op) ==
    /\ committed_out = None
    /\ changes' = Apply(Overlay, op).changes
    /\ changes_trie_config' = Apply(Overlay, op).changes_trie_config
    /\ lastOp' = op
    /\ txs' = TxsAfter(Overlay, op)
    /\ undone' = UndoneAfter(op)
    /\ since' = SinceAfter(Overlay, op)
    /\ layer' = LayerAfter(Overlay, op)
    /\ UNCHANGED <<hist, seq, ret>>
    /\ UNCHANGED committed_out

\* into_committed consumes the overlay: nothing can follow it.
Consume ==
    /\ committed_out = None
    /\ committed_out' = Some(into_committed(Overlay))
    /\ UNCHANGED <<changes, changes_trie_config, lastOp, txs, undone, since, layer>>
    /\ UNCHANGED <<hist, seq, ret>>

Counted(op) == nops < MaxOps /\ nops' = nops + 1 /\ Step(op)

SetStorage == \E key \in TopKeys, val \in Values : Counted(<<"set_storage", key, val>>)

SetChildStorage ==
    \E sk \in ChildKeys, key \in InnerKeys, val \in Values :
        Counted(<<"set_child_storage", sk, key, val>>)

ClearChildStorage == \E sk \in ChildKeys : Counted(<<"clear_child_storage", sk>>)

ClearPrefix == \E prefix \in Prefixes : Counted(<<"clear_prefix", prefix>>)

DiscardProspective == Counted(<<"discard_prospective">>)

CommitProspective == Counted(<<"commit_prospective">>)

StartTransaction == Counted(<<"start_transaction">>)

DiscardTransaction == Counted(<<"discard_transaction">>)

CommitTransaction == Counted(<<"commit_transaction">>)

SetChangesTrieConfig ==
    \E config \in Configs : Counted(<<"set_changes_trie_config", config>>)

\* Spec: every operation that leaves the overlay usable, over all inputs,
\* up to MaxOps operations.
Next ==
    \/ SetStorage
    \/ SetChildStorage
    \/ ClearChildStorage
    \/ ClearPrefix
    \/ DiscardProspective
    \/ CommitProspective
    \/ StartTransaction
    \/ DiscardTransaction
    \/ CommitTransaction
    \/ SetChangesTrieConfig

Spec == Init /\ [][Next]_vars

\* SpecTx: the five layer operations and writes to one key, to a greater depth.
Layered(op, bound) == Len(changes.history) < bound /\ Step(op) /\ UNCHANGED nops

TxSetStorage ==
    \E key \in TxKeys, val \in TxValues :
        Step(<<"set_storage", key, val>>) /\ UNCHANGED nops

TxDiscardProspective == Layered(<<"discard_prospective">>, MaxHistory)

TxCommitProspective == Layered(<<"commit_prospective">>, MaxHistory)

TxStartTransaction == Layered(<<"start_transaction">>, MaxHistory)

TxDiscardTransaction == Layered(<<"discard_transaction">>, MaxHistory)

TxCommitTransaction == Layered(<<"commit_transaction">>, MaxHistory)

NextTx ==
    \/ TxSetStorage
    \/ TxDiscardProspective
    \/ TxCommitProspective
    \/ TxStartTransaction
    \/ TxDiscardTransaction
    \/ TxCommitTransaction

SpecTx == Init /\ [][NextTx]_vars

\* SpecFlush: the same operations followed by into_committed.
FlushSetStorage ==
    \E key \in TxKeys, val \in TxValues :
        Step(<<"set_storage", key, val>>) /\ UNCHANGED nops

FlushDiscardProspective == Layered(<<"discard_prospective">>, MaxFlushHistory)

FlushCommitProspective == Layered(<<"commit_prospective">>, MaxFlushHistory)

FlushStartTransaction == Layered(<<"start_transaction">>, MaxFlushHistory)

FlushDiscardTransaction == Layered(<<"discard_transaction">>, MaxFlushHistory)

FlushCommitTransaction == Layered(<<"commit_transaction">>, MaxFlushHistory)

IntoCommitted == Consume /\ UNCHANGED nops

NextFlush ==
    \/ FlushSetStorage
    \/ FlushDiscardProspective
    \/ FlushCommitProspective
    \/ FlushStartTransaction
    \/ FlushDiscardTransaction
    \/ FlushCommitTransaction
    \/ IntoCommitted

SpecFlush == Init /\ [][NextFlush]_vars

\* SpecNest: one key written inside transactions nested up to MaxNest frames,
\* each ended by commit_transaction or discard_transaction.
NestSetStorage ==
    \E key \in TxKeys : Step(<<"set_storage", key, Some(Bytes1)>>) /\ UNCHANGED nops

NestStartTransaction == Layered(<<"start_transaction">>, MaxNest)

NestDiscardTransaction == Layered(<<"discard_transaction">>, MaxNest)

NestCommitTransaction == Layered(<<"commit_transaction">>, MaxNest)

NextNest ==
    \/ NestSetStorage
    \/ NestStartTransaction
    \/ NestDiscardTransaction
    \/ NestCommitTransaction

SpecNest == Init /\ [][NextNest]_vars

\* SpecHistory: one History<V> driven through push, pop and truncate, next to
\* the plain sequence of the same calls.
HistEntries == {"a", "b"} \X {0, 1}

OverlayUnchanged ==
    UNCHANGED <<changes, changes_trie_config, committed_out, nops, lastOp, txs, undone,
                since, layer>>

HistoryPush ==
    \E e \in HistEntries :
        /\ len(hist) < MaxLen
        /\ Len(hist.dyn_content) < MaxLen
        /\ hist' = push(hist, e[1], e[2])
        /\ seq' = Append(seq, e)
        /\ UNCHANGED ret
        /\ OverlayUnchanged

HistoryPop ==
    /\ hist' = pop(hist).h
    /\ seq' = IF seq = <<>> THEN seq ELSE SubSeq(seq, 1, Len(seq) - 1)
    /\ ret' = [got |-> pop(hist).ret,
               want |-> IF seq = <<>> THEN None ELSE Some(seq[Len(seq)])]
    /\ OverlayUnchanged

HistoryTruncate ==
    \E n \in 0..len(hist) :
        /\ hist' = truncate(hist, n)
        /\ seq' = SubSeq(seq, 1, Min(n, Len(seq)))
        /\ UNCHANGED ret
        /\ OverlayUnchanged

NextHistory ==
    \/ HistoryPush
    \/ HistoryPop
    \/ HistoryTruncate

SpecHistory == Init /\ [][NextHistory]_vars

(***************************************************************************)
(* Properties.                                                             *)
(***************************************************************************)
SetMax(S) == CHOOSE x \in S : \A y \in S : y <= x

\* The marker the i-th entry (1-based) of value history h refers to.
MarkerOf(h, i) == changes.history[Entries(h)[i][2] + 1]

\* The value history stored at a slot, None when the map has no such key.
Stored(slot) ==
    IF slot[1] = None
    THEN IF slot[2] \in DOMAIN changes.top THEN Some(changes.top[slot[2]]) ELSE None
    ELSE IF Unwrap(slot[1]) \in DOMAIN changes.children
            /\ slot[2] \in DOMAIN changes.children[Unwrap(slot[1])]
         THEN Some(changes.children[Unwrap(slot[1])][slot[2]])
         ELSE None

\* C1: start_transaction(); writes; discard_transaction() leaves the visible
\* OverlayedValue (value and extrinsic set) of every top key and every child
\* key exactly as it was immediately before the start_transaction.
C1_DiscardRestoresView ==
    (IsSome(undone) /\ Unwrap(undone).kind = 0)
        => FullView(Overlay) = Unwrap(undone).view

\* A transaction started over visible values, written to, has been discarded.
C1_Witness ==
    /\ lastOp = <<"discard_transaction">>
    /\ IsSome(undone)
    /\ Unwrap(undone).kind = 0
    /\ Unwrap(undone).own
    /\ \E slot \in Slots : IsSome(Unwrap(undone).view[slot])
    /\ \E h \in Histories(changes) :
          len(h) >= 2 /\ MarkerOf(h, len(h)) = Dropped /\ MarkerOf(h, len(h) - 1) # Dropped

\* What into_committed is to yield for one map of value histories: a pair
\* for exactly the keys with a Committed entry, carrying the value of the
\* newest such entry.
CommittedPositions(h) == {i \in 1..len(h) : MarkerOf(h, i) = Committed}

NewestCommitted(m) ==
    [k \in {x \in DOMAIN m : CommittedPositions(m[x]) # {}}
        |-> Entries(m[k])[SetMax(CommittedPositions(m[k]))][1].value]

\* C2: into_committed yields (k, v) if and only if k's value history has an
\* entry whose marker is Committed, and v is the value of the newest such
\* entry, whatever lies above it.
C2_IntoCommittedYieldsNewestCommitted ==
    IsSome(committed_out) =>
        /\ Unwrap(committed_out).top = NewestCommitted(changes.top)
        /\ Unwrap(committed_out).children =
              [sk \in DOMAIN changes.children |-> NewestCommitted(changes.children[sk])]

\* C3: start_transaction(); ops; commit_transaction(); discard_prospective()
\* leaves every key as start_transaction(); ops; discard_transaction() does.
\* Stated for a transaction that was started when the overlay stored nothing
\* uncommitted; from other states discard_prospective also drops the writes
\* made before the transaction, as it is documented to.
C3_CommitThenDiscardProspectiveIsDiscard ==
    (txs # <<>> /\ Top(txs).base) =>
        StorageView(discard_prospective(commit_transaction(Overlay)))
            = StorageView(discard_transaction(Overlay))

\* C4: after every operation the history vector is non-empty and its last
\* marker is Pending or TxPending.
C4_HistoryEndsPending ==
    /\ Len(changes.history) >= 1
    /\ changes.history[Len(changes.history)] \in {Pending, TxPending}

\* Layers have been committed and dropped, the last by discard_transaction.
C4_Witness ==
    /\ lastOp = <<"discard_transaction">>
    /\ Len(changes.history) >= 4
    /\ \E i \in 1..Len(changes.history) : changes.history[i] = Committed

\* What storage / child_storage is to answer at a slot: Unknown when the key
\* has no value history or all its entries are Dropped, else the value of
\* the newest entry that is not Dropped.
LivePositions(h) == {i \in 1..len(h) : MarkerOf(h, i) # Dropped}

NewestLive(slot) ==
    IF IsSome(Stored(slot)) /\ LivePositions(Unwrap(Stored(slot))) # {}
    THEN LET h == Unwrap(Stored(slot))
         IN  Some(Entries(h)[SetMax(LivePositions(h))][1].value)
    ELSE None

\* C5: storage(key) and child_storage(child, key) return Unknown or the value
\* of the newest entry whose marker is not Dropped.
C5_StorageIsNewestLive ==
    \A slot \in Slots : Lookup(Overlay, slot) = NewestLive(slot)

\* A key whose newest entry is Dropped answers with an older deletion while
\* another key has only Dropped entries.
C5_Witness ==
    /\ \E slot \in Slots :
          /\ IsSome(Stored(slot))
          /\ len(Unwrap(Stored(slot))) >= 2
          /\ MarkerOf(Unwrap(Stored(slot)), len(Unwrap(Stored(slot)))) = Dropped
          /\ Lookup(Overlay, slot) = Some(None)
    /\ \E slot \in Slots :
          /\ IsSome(Stored(slot))
          /\ len(Unwrap(Stored(slot))) >= 1
          /\ Lookup(Overlay, slot) = None

\* C6: if key k has no writes since the last commit_prospective (or since
\* creation), set_storage(k, v); discard_prospective() returns storage(k) to
\* the result it had before the set.
C6_SetThenDiscardProspective ==
    \A key \in TopKeys : \A val \in Values :
        <<None, key>> \notin since.written =>
            storage(discard_prospective(set_storage(Overlay, key, val)), key)
                = storage(Overlay, key)

\* A committed value was overwritten once and discard_prospective brought it back.
C6_Witness ==
    /\ lastOp = <<"discard_prospective">>
    /\ since.written = {<<None, Key1>>}
    /\ Key1 \in DOMAIN changes.top
    /\ len(changes.top[Key1]) = 2
    /\ MarkerOf(changes.top[Key1], 1) = Committed
    /\ MarkerOf(changes.top[Key1], 2) = Dropped
    /\ Entries(changes.top[Key1])[1][1].value # Entries(changes.top[Key1])[2][1].value
    /\ storage(Overlay, Key1) = Some(Entries(changes.top[Key1])[1][1].value)

\* C7: after set_storage(k, v); commit_prospective(), whatever writes and
\* transactions follow, discard_prospective() leaves storage(k) = Known(v).
C7_CommittedValueSurvivesDiscard ==
    IsSome(since.pinned) =>
        storage(discard_prospective(Overlay), Unwrap(since.pinned)[1])
            = Some(Unwrap(since.pinned)[2])

\* The committed key was written again, in a transaction, and discard_prospective ran.
C7_Witness ==
    /\ lastOp = <<"discard_prospective">>
    /\ since.pinned = Some(<<Key1, Some(Bytes1)>>)
    /\ <<None, Key1>> \in since.written
    /\ \E i \in 1..Len(changes.history) : changes.history[i] = Dropped
    /\ len(changes.top[Key1]) >= 2
    /\ Entries(changes.top[Key1])[len(changes.top[Key1])][1].value = None
    /\ storage(Overlay, Key1) = Some(Some(Bytes1))

\* C8: nested transactions compose under discard: a discard_transaction
\* restores every key to its value at the start of the transaction it ends,
\* also when transactions were started and discarded inside that one.
C8_NestedDiscardRestoresView ==
    (IsSome(undone) /\ Unwrap(undone).kind <= 1)
        => FullView(Overlay) = Unwrap(undone).view

\* start; start; write; discard; discard has just completed over a visible value.
C8_Witness ==
    /\ lastOp = <<"discard_transaction">>
    /\ IsSome(undone)
    /\ Unwrap(undone).kind = 1
    /\ Unwrap(undone).wrote
    /\ ~Unwrap(undone).own
    /\ \E slot \in Slots : IsSome(Unwrap(undone).view[slot])

\* C9: commit_transaction changes no visible value, and the writes of the
\* committed transaction stay revertible: a later discard_transaction of the
\* enclosing transaction, or a later discard_prospective, removes them and
\* restores the values visible before the committed transaction started.
\* Stated where that restore point is the one the discards aim at: for
\* discard_transaction when the enclosing transaction had changed no value
\* before the committed one started, for discard_prospective when nothing
\* uncommitted was stored then.
C9_CommitTransactionStaysRevertible ==
    txs # <<>> =>
        /\ StorageView(commit_transaction(Overlay)) = StorageView(Overlay)
        /\ Top(txs).base =>
              StorageView(discard_prospective(commit_transaction(Overlay)))
                  = ValuesOf(Top(txs).view)
        /\ (Len(txs) >= 2 /\ ValuesOf(txs[Len(txs) - 1].view) = ValuesOf(Top(txs).view)) =>
              StorageView(discard_transaction(commit_transaction(Overlay)))
                  = ValuesOf(Top(txs).view)

\* C10: commit_prospective commits the writes of every open transaction at
\* any depth: the value written last stays visible, no TxPending, Pending or
\* Prospective marker remains below the new top frame, and no later
\* discard_transaction or discard_prospective changes any value.
C10_CommitProspectiveCommitsAllTransactions ==
    /\ lastOp = <<"commit_prospective">> =>
          /\ \A i \in 1..(Len(changes.history) - 1) :
                changes.history[i] \in {Committed, Dropped}
          /\ IsSome(since.pinned) =>
                storage(Overlay, Unwrap(since.pinned)[1]) = Some(Unwrap(since.pinned)[2])
    /\ since.written = {} =>
          /\ StorageView(Overlay) = since.view
          /\ StorageView(discard_transaction(Overlay)) = since.view
          /\ StorageView(discard_prospective(Overlay)) = since.view

\* commit_prospective has ended three open transactions, each with a write
\* of its own, the last one set_storage(Key1, Some(Bytes1)).
C10_Witness ==
    /\ lastOp = <<"commit_prospective">>
    /\ since.swept >= 3
    /\ since.pinned = Some(<<Key1, Some(Bytes1)>>)
    /\ len(changes.top[Key1]) >= 3

\* The pairs (k, v) with Lookup = Known(v) among the keys of one map,
\* addressed as top (sk = None) or as child Unwrap(sk).
KnownPairs(sk, m) ==
    [k \in {x \in DOMAIN m : IsSome(Lookup(Overlay, <<sk, x>>))}
        |-> Unwrap(Lookup(Overlay, <<sk, k>>))]

\* C11: when commit_prospective is the last operation before into_committed,
\* the top output is exactly the pairs (k, v) with storage(k) = Known(v) and
\* each child's output exactly the pairs with child_storage(c, k) = Known(v).
C11_IntoCommittedAfterCommitIsStorage ==
    (IsSome(committed_out) /\ lastOp = <<"commit_prospective">>) =>
        /\ Unwrap(committed_out).top = KnownPairs(None, changes.top)
        /\ Unwrap(committed_out).children =
              [sk \in DOMAIN changes.children |->
                  KnownPairs(Some(sk), changes.children[sk])]

\* The extrinsic set of an Option<OverlayedValue>, empty when there is none.
ExtrinsicsOf(o_val) ==
    IF IsSome(o_val) /\ IsSome(Unwrap(o_val).extrinsics)
    THEN Unwrap(Unwrap(o_val).extrinsics) ELSE {}

\* C12: with a configuration installed, after any writes made within one
\* layer the visible OverlayedValue of a written key holds the value written
\* last and the extrinsic set visible when the layer began united with the
\* extrinsic index active at each of its writes in the layer.
C12_ExtrinsicsAccumulate ==
    \A slot \in Slots :
        (IsSome(layer.last[slot]) /\ slot \notin layer.bare) =>
            Visible(Overlay, slot) =
                Some(OverlayedValue(Unwrap(layer.last[slot]),
                        Some(ExtrinsicsOf(layer.view[slot]) \cup layer.ext[slot])))

\* A key committed under one extrinsic index has been written again under
\* another: its set holds both.
C12_Witness ==
    /\ IsSome(changes_trie_config)
    /\ \E slot \in Slots :
          /\ IsSome(layer.last[slot])
          /\ ExtrinsicsOf(layer.view[slot]) # {}
          /\ layer.ext[slot] # {}
          /\ ~(layer.ext[slot] \subseteq ExtrinsicsOf(layer.view[slot]))
          /\ Cardinality(ExtrinsicsOf(Visible(Overlay, slot))) >= 2
          /\ \E i \in 1..Len(changes.history) : changes.history[i] = Committed

\* C13: set_changes_trie_config returns true and stores the config when none
\* is installed, returns true and changes nothing when the same config is
\* installed, and returns false and changes nothing when a different config
\* is installed.
C13_ConfigInstalledOnce ==
    \A config \in Configs :
        LET r == set_changes_trie_config(Overlay, config) IN
        /\ r.o.changes = changes
        /\ changes_trie_config = None =>
              r.ret /\ r.o.changes_trie_config = Some(config)
        /\ changes_trie_config = Some(config) => r.ret /\ r.o = Overlay
        /\ (IsSome(changes_trie_config) /\ changes_trie_config # Some(config)) =>
              ~r.ret /\ r.o = Overlay

\* A different configuration has just been refused by an overlay that holds
\* values with collected extrinsics.
C13_Witness ==
    /\ lastOp[1] = "set_changes_trie_config"
    /\ IsSome(changes_trie_config)
    /\ Some(lastOp[2]) # changes_trie_config
    /\ ~set_changes_trie_config(Overlay, lastOp[2]).ret
    /\ \E slot \in Slots : ExtrinsicsOf(Visible(Overlay, slot)) # {}

\* The positions of value history h whose entry belongs to the current layer.
CurrentLayerPositions(h) ==
    {i \in 1..len(h) : Entries(h)[i][2] = Len(changes.history) - 1}

\* C14: every value history holds at most one entry of the current layer,
\* and for a key written in the current layer that entry carries the value
\* written last.
C14_WritesCoalesce ==
    /\ \A h \in Histories(changes) : Cardinality(CurrentLayerPositions(h)) <= 1
    /\ \A slot \in Slots :
          IsSome(layer.last[slot]) =>
              /\ IsSome(Stored(slot))
              /\ \E i \in CurrentLayerPositions(Unwrap(Stored(slot))) :
                    Entries(Unwrap(Stored(slot)))[i][1].value = Unwrap(layer.last[slot])

\* A key with an entry in an older layer was written twice in the current
\* layer, under two extrinsic indices.
C14_Witness ==
    \E slot \in Slots :
        /\ IsSome(Stored(slot))
        /\ len(Unwrap(Stored(slot))) >= 2
        /\ Cardinality(layer.ext[slot]) >= 2
        /\ Cardinality(CurrentLayerPositions(Unwrap(Stored(slot)))) = 1

\* C15: every history_index stored in an entry of a top or child value
\* history satisfies 0 <= history_index < |history|.
C15_HistoryIndexInBounds ==
    \A h \in Histories(changes) : \A i \in 1..len(h) :
        /\ 0 <= Entries(h)[i][2]
        /\ Entries(h)[i][2] < Len(changes.history)

\* One value history holds an entry of the oldest layer and one of the
\* current layer, with layers in between.
C15_Witness ==
    /\ Len(changes.history) >= 4
    /\ \E h \in Histories(changes) :
          /\ len(h) >= 2
          /\ Entries(h)[1][2] = 0
          /\ Entries(h)[len(h)][2] = Len(changes.history) - 1

\* The slot of the reserved key.
ExtrinsicSlot == <<None, EXTRINSIC_INDEX>>

\* The index a write is to be attributed, given the storage answer v for the
\* reserved key: of the values written here only Bytes2 encodes an integer (1).
AttributedIndex(v) == IF v = Some(Some(Bytes2)) THEN 1 ELSE NO_EXTRINSIC_INDEX

\* C16: with a configuration installed, each write is attributed the integer
\* decoded from the visible value of the reserved key, NO_EXTRINSIC_INDEX when
\* that is Unknown, deleted or undecodable; after a discard_transaction or a
\* discard_prospective the index attributed is the one visible before the
\* dropped layers.
C16_WritesAttributedVisibleIndex ==
    IsSome(changes_trie_config) =>
        LET now == AttributedIndex(NewestLive(ExtrinsicSlot)) IN
        /\ extrinsic_index(Overlay) = Some(now)
        /\ \A op \in WriteOps : \A slot \in Written(Overlay, op) :
              ExtrinsicsOf(Visible(Apply(Overlay, op), slot))
                  = ExtrinsicsOf(Visible(Overlay, slot)) \cup {now}
        /\ (IsSome(undone) /\ Unwrap(undone).kind <= 1) =>
              now = AttributedIndex(ValuesOf(Unwrap(undone).view)[ExtrinsicSlot])
        /\ lastOp = <<"discard_prospective">> =>
              now = AttributedIndex(since.view[ExtrinsicSlot])

\* A transaction that replaced the index 1 by something else has been
\* discarded: writes are attributed 1 again.
C16_Witness ==
    /\ IsSome(changes_trie_config)
    /\ lastOp = <<"discard_transaction">>
    /\ IsSome(undone)
    /\ ExtrinsicSlot \in {<<None, k>> : k \in DOMAIN changes.top}
    /\ len(changes.top[EXTRINSIC_INDEX]) >= 2
    /\ MarkerOf(changes.top[EXTRINSIC_INDEX], len(changes.top[EXTRINSIC_INDEX])) = Dropped
    /\ Entries(changes.top[EXTRINSIC_INDEX])[len(changes.top[EXTRINSIC_INDEX])][1].value
          # Some(Bytes2)
    /\ extrinsic_index(Overlay) = Some(1)

\* The newest stored entry of a slot in overlay o.
NewestEntry(o, slot) ==
    LET h == IF slot[1] = None THEN o.changes.top[slot[2]]
             ELSE o.changes.children[Unwrap(slot[1])][slot[2]]
    IN  Index(h, len(h) - 1)

\* C17: while no configuration is installed no stored OverlayedValue has
\* extrinsics = Some(...); once one is installed, every entry created or
\* overwritten by a write has extrinsics = Some(set) with the active index
\* in the set.
C17_ExtrinsicsOnlyWithConfig ==
    /\ changes_trie_config = None =>
          \A h \in Histories(changes) : \A i \in 1..len(h) :
              Entries(h)[i][1].extrinsics = None
    /\ IsSome(changes_trie_config) =>
          \A op \in WriteOps : \A slot \in Written(Overlay, op) :
              LET e == NewestEntry(Apply(Overlay, op), slot) IN
              /\ e[2] = Len(changes.history) - 1
              /\ IsSome(e[1].extrinsics)
              /\ Unwrap(extrinsic_index(Overlay)) \in Unwrap(e[1].extrinsics)

\* A configuration was installed after a write without one, and a write has
\* followed: one stored entry has no extrinsic set, another has one.
C17_Witness ==
    /\ IsSome(changes_trie_config)
    /\ IsWrite(lastOp)
    /\ \E h \in Histories(changes) : \E i \in 1..len(h) :
          Entries(h)[i][1].extrinsics = None
    /\ \E h \in Histories(changes) : \E i \in 1..len(h) :
          IsSome(Entries(h)[i][1].extrinsics)

\* C18: clear_prefix(p) makes storage(k) = Known(None) for every top key k
\* that starts with p and has an entry in the overlay, leaves every other
\* top key and all child storage as they were, and is undone for every key
\* by discarding the layer it was made in.
C18_ClearPrefix ==
    \A prefix \in Prefixes :
        LET after == clear_prefix(Overlay, prefix) IN
        /\ \A slot \in Slots :
              Lookup(after, slot) =
                  IF slot[1] = None /\ slot[2] \in DOMAIN changes.top
                     /\ starts_with(slot[2], prefix)
                  THEN Some(None)
                  ELSE Lookup(Overlay, slot)
        /\ after.changes.children = changes.children
        /\ FullView(discard_transaction(after)) = FullView(discard_transaction(Overlay))
        /\ FullView(discard_prospective(after)) = FullView(discard_prospective(Overlay))
        /\ FullView(discard_transaction(clear_prefix(start_transaction(Overlay), prefix)))
              = FullView(Overlay)

\* clear_prefix(Key1) has just deleted a value of Key1 that an earlier layer
\* holds, next to a reserved key and a child key that keep their values.
C18_Witness ==
    /\ lastOp = <<"clear_prefix", Key1>>
    /\ IsSome(layer.view[<<None, Key1>>])
    /\ IsSome(Unwrap(layer.view[<<None, Key1>>]).value)
    /\ storage(Overlay, Key1) = Some(None)
    /\ IsSome(storage(Overlay, EXTRINSIC_INDEX))
    /\ IsSome(Unwrap(storage(Overlay, EXTRINSIC_INDEX)))
    /\ IsSome(child_storage(Overlay, Child1, Key1))

\* A child the overlay never holds an entry for.
Child2 == <<8>>

\* C19: clear_child_storage(c) makes child_storage(c, k) = Known(None) for
\* every key k with an entry under child c, leaves keys without an entry
\* under c Unknown, leaves top storage and every other child as they were,
\* and is undone by discarding the layer it was made in.
C19_ClearChildStorage ==
    \A c \in {Child1, Child2} :
        LET after == clear_child_storage(Overlay, c) IN
        /\ \A sk \in {Child1, Child2} : \A k \in {Key1, Key2} :
              child_storage(after, sk, k) =
                  IF sk = c /\ c \in DOMAIN changes.children
                     /\ k \in DOMAIN changes.children[c]
                  THEN Some(None)
                  ELSE child_storage(Overlay, sk, k)
        /\ after.changes.top = changes.top
        /\ \A sk \in DOMAIN changes.children \ {c} :
              after.changes.children[sk] = changes.children[sk]
        /\ FullView(discard_transaction(after)) = FullView(discard_transaction(Overlay))
        /\ FullView(discard_prospective(after)) = FullView(discard_prospective(Overlay))
        /\ FullView(discard_transaction(clear_child_storage(start_transaction(Overlay), c)))
              = FullView(Overlay)

\* clear_child_storage(Child1) has just deleted a child value that an earlier
\* layer holds, next to a top key that keeps its value.
C19_Witness ==
    /\ lastOp = <<"clear_child_storage", Child1>>
    /\ IsSome(layer.view[<<Some(Child1), Key1>>])
    /\ IsSome(Unwrap(layer.view[<<Some(Child1), Key1>>]).value)
    /\ child_storage(Overlay, Child1, Key1) = Some(None)
    /\ child_storage(Overlay, Child1, Key2) = None
    /\ IsSome(storage(Overlay, Key1))
    /\ IsSome(Unwrap(storage(Overlay, Key1)))

\* C20: top_iter yields one item per top key whose storage(k) is not
\* Unknown, with the Option value storage(k) reports, and nothing for keys
\* whose entries are all Dropped; child_iter(c) agrees with
\* child_storage(c, .) in the same way.
C20_IterAgreesWithStorage ==
    /\ top_iter(changes) =
          [k \in {x \in TopKeys \cup {Key2} : IsSome(storage(Overlay, x))}
              |-> Unwrap(storage(Overlay, k))]
    /\ \A c \in {Child1, Child2} :
          child_iter(changes, c) =
              [k \in {x \in {Key1, Key2} : IsSome(child_storage(Overlay, c, x))}
                  |-> Unwrap(child_storage(Overlay, c, k))]

\* One top key has only Dropped entries, another is visibly deleted, and a
\* child key holds a value.
C20_Witness ==
    /\ Key1 \in DOMAIN changes.top
    /\ storage(Overlay, Key1) = None
    /\ storage(Overlay, EXTRINSIC_INDEX) = Some(None)
    /\ IsSome(child_storage(Overlay, Child1, Key1))
    /\ IsSome(Unwrap(child_storage(Overlay, Child1, Key1)))
    /\ DOMAIN top_iter(changes) = {EXTRINSIC_INDEX}
    /\ DOMAIN child_iter(changes, Child1) = {Key1}

\* C21: under every interleaving of push, pop and truncate the History reads
\* as the plain sequence of its entries: len is the length, index i reads
\* entry i, and pop returns the last entry.
C21_HistoryIsAPlainSequence ==
    /\ len(hist) = Len(seq)
    /\ \A i \in 1..Len(seq) : i <= len(hist) => Index(hist, i - 1) = seq[i]
    /\ ret.got = ret.want

\* C22: when no transaction is open, discard_transaction leaves the storage
\* of every key as discard_prospective would.
C22_DiscardTransactionOutsideTransaction ==
    txs = <<>> =>
        StorageView(discard_transaction(Overlay)) = StorageView(discard_prospective(Overlay))

\* C23: start_transaction(); ops; discard_transaction() leaves the storage of
\* every key as it was before the start_transaction, also when ops holds,
\* besides writes, inner transactions nested to any depth that are each ended
\* by commit_transaction.
C23_DiscardRevertsCommittedInnerTransactions ==
    /\ (txs # <<>> /\ Top(txs).nested) =>
          StorageView(discard_transaction(Overlay)) = ValuesOf(Top(txs).view)
    /\ (Len(txs) >= 2 /\ Top(txs).nested /\ txs[Len(txs) - 1].nested) =>
          StorageView(discard_transaction(commit_transaction(Overlay)))
              = ValuesOf(txs[Len(txs) - 1].view)

TxPendingCount == Cardinality({i \in 1..Len(changes.history) : changes.history[i] = TxPending})

\* C24: each commit_transaction ends exactly the innermost open transaction
\* by turning its TxPending marker into Prospective, so history holds one
\* TxPending marker per open transaction, and none once as many
\* commit_transaction calls as start_transaction calls have been made.
C24_CommitTransactionEndsInnermost ==
    TxPendingCount = Len(txs)

\* The positions of a value history whose entry refers to a Dropped layer.
DroppedPositions(h) == {i \in 1..len(h) : MarkerOf(h, i) = Dropped}

\* The slots the last operation wrote to.
LastWritten ==
    CASE lastOp[1] = "set_storage" -> {<<None, lastOp[2]>>}
      [] lastOp[1] = "set_child_storage" -> {<<Some(lastOp[2]), lastOp[3]>>}
      [] lastOp[1] = "clear_child_storage" ->
            {slot \in Slots : slot[1] = Some(lastOp[2]) /\ IsSome(Stored(slot))}
      [] lastOp[1] = "clear_prefix" ->
            {slot \in Slots : /\ slot[1] = None
                              /\ IsSome(Stored(slot))
                              /\ starts_with(slot[2], lastOp[2])}
      [] OTHER -> {}

\* C25: in every value history the entries that refer to a Dropped layer form
\* a suffix, and right after a write to a key no entry of that key's history
\* refers to a Dropped layer.
C25_DroppedEntriesFormASuffix ==
    /\ \A h \in Histories(changes) :
          \A i \in DroppedPositions(h) : \A j \in 1..len(h) : j > i => j \in DroppedPositions(h)
    /\ \A slot \in LastWritten :
          /\ IsSome(Stored(slot))
          /\ DroppedPositions(Unwrap(Stored(slot))) = {}

\* A key with an entry in an older layer has just been written again, in a
\* layer above a Dropped one.
C25_Witness ==
    /\ IsWrite(lastOp)
    /\ \E slot \in LastWritten :
          /\ len(Unwrap(Stored(slot))) >= 2
          /\ \E d \in 1..Len(changes.history) :
                /\ changes.history[d] = Dropped
                /\ Entries(Unwrap(Stored(slot)))[1][2] + 1 < d
                /\ d < Entries(Unwrap(Stored(slot)))[len(Unwrap(Stored(slot)))][2] + 1

\* C26: no Pending, TxPending or Prospective marker sits at a lower index of
\* history than a Committed marker: everything below the topmost Committed
\* frame is Committed or Dropped, and right after commit_prospective or
\* discard_prospective so is everything below the new top frame.
C26_NothingUncommittedBelowCommitted ==
    /\ \A j \in 1..Len(changes.history) :
          changes.history[j] = Committed =>
              \A i \in 1..(j - 1) : changes.history[i] \in {Committed, Dropped}
    /\ lastOp[1] \in {"commit_prospective", "discard_prospective"} =>
          \A i \in 1..(Len(changes.history) - 1) :
              changes.history[i] \in {Committed, Dropped}

\* Two commit_prospective calls have been made, a discarded frame lies below
\* the topmost Committed frame and a transaction is open above it.
C26_Witness ==
    \E i, j, k \in 1..Len(changes.history) :
        /\ i < j /\ j < k
        /\ changes.history[i] = Dropped
        /\ changes.history[j] = Committed
        /\ changes.history[k] = TxPending
        /\ \E c \in 1..(i - 1) : changes.history[c] = Committed

\* C27: is_empty() is true exactly when storage and child_storage are Unknown
\* for every key, in particular after set_storage; discard_prospective and
\* after clear_child_storage on a fresh overlay.
C27_IsEmptyIffNothingVisible ==
    is_empty(Overlay) <=> (\A slot \in Slots : StorageView(Overlay)[slot] = None)

====
